---------------------------- MODULE Spec2Model ----------------------------
(***************************************************************************)
(* KoHash (src/zobrist-hash-class.js): Zobrist key table, XOR fold and     *)
(* registry of position fingerprints.                                      *)
(*                                                                         *)
(* JavaScript arrays are 0-based, TLA+ sequences 1-based: vertex v is      *)
(* nums[v + 1], value val of a row is row[val + 1].                        *)
(*                                                                         *)
(* Widths are scaled: a key is floor(random * MAX_SAFE_INTEGER), that is   *)
(* 0 .. 2^53 - 2 in the source and 0 .. 2^SafeBits - 2 here; the ^         *)
(* operator works on ToInt32 of its operands, 32 bits in the source and    *)
(* Int32Bits here.  SafeBits > Int32Bits as 53 > 32.                       *)
(***************************************************************************)
EXTENDS Integers, Sequences, FiniteSets, TLC

VARIABLES
    size,         \* constructor argument
    values,       \* constructor argument
    situational,  \* constructor argument
    nums,         \* this.nums
    toPlay,       \* this.toPlay (Undefined until assigned)
    keys,         \* this.keys
    numbers,      \* constructor's local Set of the numbers drawn so far
    pc,           \* position of the constructor
    vertex,       \* constructor's loop variable
    target,       \* which call of initNumbers is running: "nums" or "toPlay"
    quantity,     \* initNumbers' parameter
    newNumbers,   \* initNumbers' local array
    num,          \* initNumbers' local of the do-while loop
    last,         \* the last call made on the instance and what it returned
    live          \* history: the fingerprints add returned, less those removed since

vars == <<size, values, situational, nums, toPlay, keys, numbers, pc, vertex,
          target, quantity, newNumbers, num, last, live>>

ctorVars == <<numbers, pc, vertex, target, quantity, newNumbers, num>>

(* ------------------------------ bounds -------------------------------- *)

\* the constructor's size argument is in 0 .. MaxSize
MaxSize == 2

\* the constructor's values argument is in 1 .. MaxValues
MaxValues == 1

\* the constructor's situational argument is in 0 .. MaxSituational
MaxSituational == 1

\* under FairSpec the values argument is in 1 .. MaxFairValues, so that
\* size * values + situational can exceed the count of RandomNumbers
MaxFairValues == 4

\* a caller's state has at most MaxLen elements
MaxLen == 2

\* each of them in 0 .. MaxVal
MaxVal == 2

\* a caller's toPlay argument is in 0 .. MaxToPlay
MaxToPlay == 1

(* ----------------------- scaled program constants --------------------- *)

\* bits of Number.MAX_SAFE_INTEGER: 53 in the source
SafeBits == 3

\* bits the ^ operator keeps of each operand: 32 in the source
Int32Bits == 2

RECURSIVE Pow2(_)
Pow2(n) == IF n = 0 THEN 1 ELSE 2 * Pow2(n - 1)

\* Number.MAX_SAFE_INTEGER = 2^53 - 1
MAX_SAFE_INTEGER == Pow2(SafeBits) - 1

\* Math.floor(Math.random() * Number.MAX_SAFE_INTEGER): Math.random() is in [0, 1)
RandomNumbers == 0 .. (MAX_SAFE_INTEGER - 1)

Undefined == <<>>

NoNum == 0 - 1

(* ------------------------- the ^ operator ----------------------------- *)

ToUint32(x) == x % Pow2(Int32Bits)

ToInt32(x) ==
    LET m == ToUint32(x)
    IN  IF m >= Pow2(Int32Bits - 1) THEN m - Pow2(Int32Bits) ELSE m

RECURSIVE BitXor(_, _)
BitXor(a, b) ==
    IF a = 0 THEN b
    ELSE IF b = 0 THEN a
    ELSE 2 * BitXor(a \div 2, b \div 2) + (((a % 2) + (b % 2)) % 2)

\* a ^ b of JavaScript Numbers
Xor(a, b) == ToInt32(BitXor(ToUint32(a), ToUint32(b)))

(* ------------------------------ hash ---------------------------------- *)

Ok == "ok"

TypeError == "TypeError"

Duplicate == "Error: already in this.keys"

Returned(v) == [err |-> Ok, ret |-> v]

Threw(e) == [err |-> e, ret |-> 0]

\* this.nums[i][val] as an operand of ^: undefined (val past the row's end)
\* converts to 0
NumsAt(i, val) ==
    IF val + 1 <= Len(nums[i + 1]) THEN nums[i + 1][val + 1] ELSE 0

\* this.toPlay[p] as an operand of ^
ToPlayAt(p) == IF p + 1 <= Len(toPlay) THEN toPlay[p + 1] ELSE 0

\* state.reduce((hash,val,i) => hash ^ this.nums[i][val]) once the accumulator
\* holds acc and the elements before index i (0-based) are folded
RECURSIVE Reduce(_, _, _)
Reduce(state, i, acc) ==
    IF i >= Len(state) THEN Returned(acc)
    ELSE IF i >= Len(nums) THEN Threw(TypeError)
    ELSE Reduce(state, i + 1, Xor(acc, NumsAt(i, state[i + 1])))

\* reduce without an initial value: throws on an empty array, else starts
\* from state[0] itself at index 1
ReduceNoSeed(state) ==
    IF Len(state) = 0 THEN Threw(TypeError) ELSE Reduce(state, 1, state[1])

hash(state, p) ==
    LET h == ReduceNoSeed(state)
    IN  IF h.err # Ok THEN h
        ELSE IF toPlay # Undefined THEN Returned(Xor(h.ret, ToPlayAt(p)))
        ELSE h

(* ---------------------------- constructor ----------------------------- *)

NoCall == [op |-> "none", state |-> <<>>, toPlay |-> 0, key |-> 0,
           err |-> Ok, ret |-> 0, existed |-> FALSE, before |-> {},
           numsBefore |-> <<>>, toPlayBefore |-> Undefined]

InitWith(S, V, T) ==
    /\ size \in S
    /\ values \in V
    /\ situational \in T
    /\ nums = <<>>
    /\ toPlay = Undefined
    /\ keys = {}
    /\ numbers = {}
    /\ pc = "ctor"
    /\ vertex = 0
    /\ target = "nums"
    /\ quantity = 0
    /\ newNumbers = <<>>
    /\ num = NoNum
    /\ last = NoCall
    /\ live = {}

Init == InitWith(0 .. MaxSize, 1 .. MaxValues, 0 .. MaxSituational)

\* a membership test that never finds the number
NumbersHasNever(set, n) == FALSE

\* numbers.has(num)
NumbersHas(set, n) == n \in set

\* this.nums[vertex] = initNumbers(numbers,values): the call
BeginRow ==
    /\ pc = "ctor"
    /\ vertex < size
    /\ target' = "nums"
    /\ quantity' = values
    /\ newNumbers' = <<0>>
    /\ num' = NoNum
    /\ pc' = "loop"
    /\ UNCHANGED <<size, values, situational, nums, toPlay, keys, numbers,
                   vertex, last, live>>

\* if (situational) this.toPlay = initNumbers(numbers,situational): the call
BeginToPlay ==
    /\ pc = "ctor"
    /\ vertex = size
    /\ situational # 0
    /\ toPlay = Undefined
    /\ target' = "toPlay"
    /\ quantity' = situational
    /\ newNumbers' = <<0>>
    /\ num' = NoNum
    /\ pc' = "loop"
    /\ UNCHANGED <<size, values, situational, nums, toPlay, keys, numbers,
                   vertex, last, live>>

\* num = Math.floor(Math.random() * Number.MAX_SAFE_INTEGER)
Draw ==
    /\ pc = "loop"
    /\ Len(newNumbers) <= quantity
    /\ \E n \in RandomNumbers : num' = n
    /\ pc' = "test"
    /\ UNCHANGED <<size, values, situational, nums, toPlay, keys, numbers,
                   vertex, target, quantity, newNumbers, last, live>>

\* while (numbers.has(num)): redo
Retry ==
    /\ pc = "test"
    /\ NumbersHas(numbers, num)
    /\ pc' = "loop"
    /\ UNCHANGED <<size, values, situational, nums, toPlay, keys, numbers,
                   vertex, target, quantity, newNumbers, num, last, live>>

\* numbers.add(num); newNumbers.push(num)
Accept ==
    /\ pc = "test"
    /\ ~NumbersHas(numbers, num)
    /\ numbers' = numbers \cup {num}
    /\ newNumbers' = Append(newNumbers, num)
    /\ num' = NoNum
    /\ pc' = "loop"
    /\ UNCHANGED <<size, values, situational, nums, toPlay, keys, vertex,
                   target, quantity, last, live>>

\* return newNumbers, assigned to this.nums[vertex] or to this.toPlay
Return ==
    /\ pc = "loop"
    /\ Len(newNumbers) > quantity
    /\ IF target = "nums"
          THEN /\ nums' = Append(nums, newNumbers)
               /\ vertex' = vertex + 1
               /\ UNCHANGED toPlay
          ELSE /\ toPlay' = newNumbers
               /\ UNCHANGED <<nums, vertex>>
    /\ newNumbers' = <<>>
    /\ pc' = "ctor"
    /\ UNCHANGED <<size, values, situational, keys, numbers, target,
                   quantity, num, last, live>>

\* this.keys = new Set(): the constructor returns
Finish ==
    /\ pc = "ctor"
    /\ vertex = size
    /\ (situational = 0 \/ toPlay # Undefined)
    /\ keys' = {}
    /\ pc' = "done"
    /\ UNCHANGED <<size, values, situational, nums, toPlay, numbers, vertex,
                   target, quantity, newNumbers, num, last, live>>

Constructor ==
    \/ BeginRow
    \/ BeginToPlay
    \/ Draw
    \/ Retry
    \/ Accept
    \/ Return
    \/ Finish

CtorSpec == Init /\ [][Constructor]_vars

(* ------------------------- calls on the instance ---------------------- *)

\* the board states a caller passes: every array of at most MaxLen values in
\* 0 .. MaxVal, which holds the states of the right shape and the wrong ones
States == UNION {[1 .. n -> 0 .. MaxVal] : n \in 0 .. MaxLen}

ToPlays == 0 .. MaxToPlay

\* the numbers a caller passes to remove: whatever hash can return
Fingerprints == (0 - Pow2(Int32Bits - 1)) .. MaxVal

Call(op, state, p, key, r, existed) ==
    [op |-> op, state |-> state, toPlay |-> p, key |-> key, err |-> r.err,
     ret |-> r.ret, existed |-> existed, before |-> keys,
     numsBefore |-> nums, toPlayBefore |-> toPlay]

\* this.keys.has(hash)
KeysHas(set, h) == h \in set

\* an add that stores nothing
KeysAddSkips(set, h) == set

\* this.keys.add(hash)
KeysAdd(set, h) == set \cup {h}

\* a delete that leaves the key in the Set
KeysDeleteKeeps(set, key) == set

\* the Set after this.keys.delete(key)
KeysDelete(set, key) == set \ {key}

\* a delete that answers true whatever the Set holds
DeleteReturnsTrue(set, key) == TRUE

\* what this.keys.delete(key) returns
DeleteReturns(set, key) == key \in set

\* hash(state, toPlay), called by the user of the instance
Hash(state, p) ==
    /\ pc = "done"
    /\ last' = Call("hash", state, p, 0, hash(state, p), FALSE)
    /\ UNCHANGED <<size, values, situational, nums, toPlay, keys, ctorVars, live>>

\* add(state, toPlay)
Add(state, p) ==
    /\ pc = "done"
    /\ LET h == hash(state, p)
       IN  IF h.err # Ok
              THEN /\ last' = Call("add", state, p, 0, h, FALSE)
                   /\ UNCHANGED keys
              ELSE IF KeysHas(keys, h.ret)
                      THEN /\ last' = Call("add", state, p, 0, Threw(Duplicate), FALSE)
                           /\ UNCHANGED keys
                      ELSE /\ keys' = KeysAdd(keys, h.ret)
                           /\ last' = Call("add", state, p, 0, h, FALSE)
    /\ live' = IF last'.err = Ok THEN live \cup {last'.ret} ELSE live
    /\ UNCHANGED <<size, values, situational, nums, toPlay, ctorVars>>

\* remove(key)
Remove(key) ==
    /\ pc = "done"
    /\ keys' = KeysDelete(keys, key)
    /\ last' = Call("remove", <<>>, 0, key, Returned(0), DeleteReturns(keys, key))
    /\ live' = live \ {key}
    /\ UNCHANGED <<size, values, situational, nums, toPlay, ctorVars>>

\* the instance under a caller of add and remove
Next ==
    \/ Constructor
    \/ \E state \in States, p \in ToPlays : Add(state, p)
    \/ \E key \in Fingerprints : Remove(key)

Spec == Init /\ [][Next]_vars

\* the instance under a caller of hash
NextHash ==
    \/ Constructor
    \/ \E state \in States, p \in ToPlays : Hash(state, p)

HashSpec == Init /\ [][NextHash]_vars

\* construction asked for more keys than there are numbers to draw
InitFair == InitWith(0 .. MaxSize, 1 .. MaxFairValues, 0 .. MaxSituational)

\* a draw of a number that is not in the set yet
DrawFresh == Draw /\ num' \notin numbers

\* the constructor runs on without being suspended, and a random source that
\* can give a number not drawn yet does give one sooner or later
FairSpec ==
    /\ InitFair
    /\ [][Constructor]_vars
    /\ WF_vars(Constructor)
    /\ SF_vars(DrawFresh)



(* ------------------------------ claims -------------------------------- *)

\* a state of length size with each value in 0 .. values
ValidState(state) ==
    /\ Len(state) = size
    /\ \A i \in 1 .. Len(state) : state[i] \in 0 .. values

\* a to-play value the table has a key for
ValidToPlay(p) == toPlay = Undefined \/ p \in 0 .. situational

\* the fingerprint the specification defines: the XOR, on whole keys, of
\* KeyTable[v][state[v]] over the vertices from v (0-based) on, seeded with 0
RECURSIVE KeyFold(_, _)
KeyFold(state, v) ==
    IF v >= Len(state) THEN 0
    ELSE BitXor(nums[v + 1][state[v + 1] + 1], KeyFold(state, v + 1))

Fingerprint(state, p) ==
    IF toPlay = Undefined THEN KeyFold(state, 0)
    ELSE BitXor(KeyFold(state, 0), toPlay[p + 1])

\* C1: hash of a valid state returns the XOR of the keys of all its vertices,
\* vertex 0 included, XORed with the to-play key when there is a to-play table
\* (stated for the states of at least one vertex; the empty state is C6's)
C1_HashIsXorOfAllKeys ==
    (/\ last.op = "hash"
     /\ ValidState(last.state)
     /\ Len(last.state) >= 1
     /\ ValidToPlay(last.toPlay))
        => (last.err = Ok /\ last.ret = Fingerprint(last.state, last.toPlay))

\* every non-identity key of the structure with its place: <<row, index, key>>,
\* the to-play table being row size + 1
PlacedKeys ==
    UNION {{<<r, i, nums[r][i]>> : i \in 2 .. Len(nums[r])} : r \in 1 .. Len(nums)}
        \cup {<<Len(nums) + 1, i, toPlay[i]>> : i \in 2 .. Len(toPlay)}

\* C2: after construction the non-identity keys of all vertex rows and of the
\* to-play table are pairwise distinct
C2_KeysPairwiseDistinct ==
    pc = "done" =>
        \A a \in PlacedKeys, b \in PlacedKeys : a # b => a[3] # b[3]

C2_Witness ==
    /\ pc = "done"
    /\ size >= 2
    /\ situational > 0
    /\ Cardinality(PlacedKeys) >= 3

\* C3: changing the value of one vertex of a valid state changes the hash
C3_SingleVertexSensitivity ==
    (last.op = "hash" /\ ValidState(last.state) /\ ValidToPlay(last.toPlay))
        => \A v \in 1 .. Len(last.state), x \in 0 .. values :
               x # last.state[v] =>
                   LET other == hash([last.state EXCEPT ![v] = x], last.toPlay)
                   IN  other.err = Ok /\ last.err = Ok /\ other.ret # last.ret

\* C4: add fails as a duplicate exactly when the fingerprint of its arguments
\* was returned by an earlier add and not removed since; otherwise it returns
\* that fingerprint, which is registered from then on
C4_RegistryExclusivity ==
    /\ pc = "done" => keys = live
    /\ last.op = "add" =>
          LET h == hash(last.state, last.toPlay)
          IN  /\ last.err = Duplicate <=> (h.err = Ok /\ h.ret \in last.before)
              /\ last.err = Ok => (h.err = Ok /\ last.ret = h.ret /\ last.ret \in live)

C4_Witness ==
    /\ last.op = "add"
    /\ last.err = Duplicate
    /\ ValidState(last.state)
    /\ size >= 2

\* C5: a duplicate add leaves the registry and the key tables as they were; a
\* successful add leaves the registry with the returned fingerprint added
C5_AddAtomic ==
    last.op = "add" =>
        /\ nums = last.numsBefore
        /\ toPlay = last.toPlayBefore
        /\ last.err = Duplicate => keys = last.before
        /\ last.err = Ok =>
              /\ last.ret \notin last.before
              /\ keys = last.before \cup {last.ret}

C5_Witness ==
    /\ last.op = "add"
    /\ last.err = Ok
    /\ last.before # {}
    /\ Cardinality(keys) = Cardinality(last.before) + 1

\* C6: hash of an all-zero state, the empty one included, with to_play = 0
\* returns 0
C6_ZeroStateHashesToZero ==
    (/\ last.op = "hash"
     /\ Len(last.state) \in {0, size}
     /\ \A i \in 1 .. Len(last.state) : last.state[i] = 0
     /\ last.toPlay = 0)
        => (last.err = Ok /\ last.ret = 0)

\* C7: built with situational = 0, hash(s, 1) equals hash(s, 0); built with
\* situational > 0, hash(s, 1) differs from hash(s, 0)
C7_ToPlayMatters ==
    (/\ last.op = "hash"
     /\ ValidState(last.state)
     /\ Len(last.state) >= 1
     /\ last.toPlay = 1)
        => LET zero == hash(last.state, 0)
           IN  /\ last.err = Ok
               /\ zero.err = Ok
               /\ (situational = 0) => last.ret = zero.ret
               /\ (situational > 0) => last.ret # zero.ret

\* C8: remove returns whether the fingerprint was registered, leaves it
\* unregistered, and leaves the other fingerprints and the key tables alone
C8_RemoveFrame ==
    last.op = "remove" =>
        /\ last.err = Ok
        /\ last.existed <=> (last.key \in last.before)
        /\ last.key \notin keys
        /\ keys = last.before \ {last.key}
        /\ nums = last.numsBefore
        /\ toPlay = last.toPlayBefore

C8_Witness ==
    /\ last.op = "remove"
    /\ last.existed
    /\ keys # {}

\* C9: add of a state of the wrong length or with a value outside 0 .. values
\* raises a shape error and leaves the registry as it was
C9_ShapeErrorReported ==
    (last.op = "add" /\ size >= 1 /\ ~ValidState(last.state))
        => (last.err = TypeError /\ keys = last.before)

\* C10: construction ends, whatever the arguments and the draws
C10_ConstructionTerminates == <>(pc = "done")

=============================================================================
